---- MODULE Spec2Model ----
(***************************************************************************)
(* A model of parse-git-url: src/src/scheme.rs (the Scheme codec) and       *)
(* src/src/lib.rs (normalize_url, GitUrl::parse, GitUrl::trim_auth and the  *)
(* Display rendering of GitUrl).                                            *)
(*                                                                          *)
(* A Rust string is modelled as a sequence of characters; a character is a  *)
(* one-letter TLA+ string, except NUL which stands for the byte U+0000.     *)
(* An Option<T> is a sequence of length at most one: None is <<>> and       *)
(* Some(x) is <<x>>.                                                        *)
(***************************************************************************)
EXTENDS Naturals, Sequences, FiniteSets

None == <<>>
Some(x) == <<x>>
IsSome(o) == Len(o) = 1
Unwrap(o) == o[1]

NUL == "NUL"

(***************************************************************************)
(* String primitives of the Rust standard library, as the code uses them.   *)
(***************************************************************************)

\* str::starts_with
StartsWith(s, p) == Len(s) >= Len(p) /\ SubSeq(s, 1, Len(p)) = p

\* str::ends_with
EndsWith(s, p) == Len(s) >= Len(p) /\ SubSeq(s, Len(s) - Len(p) + 1, Len(s)) = p

\* str::contains with a string pattern
Contains(s, p) == \E i \in 1..(Len(s) + 1) :
                     i + Len(p) - 1 <= Len(s) /\ SubSeq(s, i, i + Len(p) - 1) = p

\* str::contains with a char pattern
HasChar(s, c) == \E i \in 1..Len(s) : s[i] = c

\* str::find with a char pattern: the first index (1-based), 0 standing for None
Find(s, c) == IF HasChar(s, c)
              THEN CHOOSE i \in 1..Len(s) : s[i] = c /\ \A j \in 1..(i - 1) : s[j] # c
              ELSE 0

\* the last index of c in s, 0 when there is none
FindLast(s, c) == IF HasChar(s, c)
                  THEN CHOOSE i \in 1..Len(s) : s[i] = c /\ \A j \in (i + 1)..Len(s) : s[j] # c
                  ELSE 0

\* the tail of s from index i (1-based) on
Drop(s, i) == SubSeq(s, i, Len(s))

\* str::split with a char pattern, collected: always at least one piece
RECURSIVE Split(_, _)
SplitAt(s, c, i) == IF i = 0 THEN <<s>>
                    ELSE <<SubSeq(s, 1, i - 1)>> \o Split(Drop(s, i + 1), c)
Split(s, c) == SplitAt(s, c, Find(s, c))

\* Vec::join
RECURSIVE Join(_, _)
Join(parts, sep) == IF Len(parts) = 0 THEN <<>>
                    ELSE IF Len(parts) = 1 THEN parts[1]
                    ELSE parts[1] \o sep \o Join(Tail(parts), sep)

Reverse(q) == [i \in 1..Len(q) |-> q[Len(q) + 1 - i]]

\* str::rsplit_terminator with a char pattern, collected: the pieces of split
\* from right to left, an empty piece after the last separator being skipped
SkipLastIfEmpty(parts) ==
    IF parts[Len(parts)] = <<>> THEN SubSeq(parts, 1, Len(parts) - 1) ELSE parts
RSplitTerminator(s, c) == Reverse(SkipLastIfEmpty(Split(s, c)))

\* str::trim_end_matches: the suffix is removed as often as it matches
RECURSIVE TrimEndMatches(_, _)
TrimEndMatches(s, p) == IF Len(p) > 0 /\ EndsWith(s, p)
                        THEN TrimEndMatches(SubSeq(s, 1, Len(s) - Len(p)), p)
                        ELSE s

\* str::replace: every non-overlapping match, left to right
RECURSIVE Replace(_, _, _)
Replace(s, from, to) ==
    IF Len(s) = 0 THEN <<>>
    ELSE IF StartsWith(s, from) THEN to \o Replace(Drop(s, Len(from) + 1), from, to)
    ELSE <<s[1]>> \o Replace(Tail(s), from, to)

Digits == <<"0", "1", "2", "3", "4", "5", "6", "7", "8", "9">>
IsDigit(c) == \E i \in 1..10 : Digits[i] = c
DigitVal(c) == (CHOOSE i \in 1..10 : Digits[i] = c) - 1

\* the decimal rendering of a number ({} of a u16)
RECURSIVE FmtNum(_)
FmtNum(n) == IF n < 10 THEN <<Digits[n + 1]>> ELSE FmtNum(n \div 10) \o <<Digits[(n % 10) + 1]>>

Uppers == <<"A", "B", "C", "D", "E", "F", "G", "H", "I", "J", "K", "L", "M",
            "N", "O", "P", "Q", "R", "S", "T", "U", "V", "W", "X", "Y", "Z">>
Lowers == <<"a", "b", "c", "d", "e", "f", "g", "h", "i", "j", "k", "l", "m",
            "n", "o", "p", "q", "r", "s", "t", "u", "v", "w", "x", "y", "z">>
IsUpper(c) == \E i \in 1..26 : Uppers[i] = c
IsLower(c) == \E i \in 1..26 : Lowers[i] = c
IsAlpha(c) == IsUpper(c) \/ IsLower(c)
LowerChar(c) == IF IsUpper(c) THEN Lowers[CHOOSE i \in 1..26 : Uppers[i] = c] ELSE c
\* str::to_ascii_lowercase
ToLower(s) == [i \in 1..Len(s) |-> LowerChar(s[i])]

(***************************************************************************)
(* src/src/scheme.rs: the Scheme enumeration and its string codec.          *)
(***************************************************************************)

Scheme == {"File", "Ftp", "Ftps", "Git", "GitSsh", "Http", "Https", "Ssh", "Unspecified"}

\* impl Display for Scheme
SchemeDisplay(s) ==
    CASE s = "File"        -> <<"f", "i", "l", "e">>
      [] s = "Ftp"         -> <<"f", "t", "p">>
      [] s = "Ftps"        -> <<"f", "t", "p", "s">>
      [] s = "Git"         -> <<"g", "i", "t">>
      [] s = "GitSsh"      -> <<"g", "i", "t", "+", "s", "s", "h">>
      [] s = "Http"        -> <<"h", "t", "t", "p">>
      [] s = "Https"       -> <<"h", "t", "t", "p", "s">>
      [] s = "Ssh"         -> <<"s", "s", "h">>
      [] s = "Unspecified" -> <<"u", "n", "s", "p", "e", "c", "i", "f", "i", "e", "d">>

\* a from_str whose "ftps" arm returns the Ftp variant
SchemeFromStrFtpsAsFtp(s) ==
    CASE s = <<"f", "i", "l", "e">>                -> [ok |-> TRUE, scheme |-> "File"]
      [] s = <<"f", "t", "p">>                     -> [ok |-> TRUE, scheme |-> "Ftp"]
      [] s = <<"f", "t", "p", "s">>                -> [ok |-> TRUE, scheme |-> "Ftp"]
      [] s = <<"g", "i", "t">>                     -> [ok |-> TRUE, scheme |-> "Git"]
      [] s = <<"g", "i", "t", "+", "s", "s", "h">> -> [ok |-> TRUE, scheme |-> "GitSsh"]
      [] s = <<"h", "t", "t", "p">>                -> [ok |-> TRUE, scheme |-> "Http"]
      [] s = <<"h", "t", "t", "p", "s">>           -> [ok |-> TRUE, scheme |-> "Https"]
      [] s = <<"s", "s", "h">>                     -> [ok |-> TRUE, scheme |-> "Ssh"]
      [] s = <<"u", "n", "s", "p", "e", "c", "i", "f", "i", "e", "d">>
                                                   -> [ok |-> TRUE, scheme |-> "Unspecified"]
      [] OTHER -> [ok |-> FALSE, kind |-> "UnsupportedScheme", arg |-> s]

\* impl FromStr for Scheme
SchemeFromStr(s) ==
    CASE s = <<"f", "i", "l", "e">>                -> [ok |-> TRUE, scheme |-> "File"]
      [] s = <<"f", "t", "p">>                     -> [ok |-> TRUE, scheme |-> "Ftp"]
      [] s = <<"f", "t", "p", "s">>                -> [ok |-> TRUE, scheme |-> "Ftps"]
      [] s = <<"g", "i", "t">>                     -> [ok |-> TRUE, scheme |-> "Git"]
      [] s = <<"g", "i", "t", "+", "s", "s", "h">> -> [ok |-> TRUE, scheme |-> "GitSsh"]
      [] s = <<"h", "t", "t", "p">>                -> [ok |-> TRUE, scheme |-> "Http"]
      [] s = <<"h", "t", "t", "p", "s">>           -> [ok |-> TRUE, scheme |-> "Https"]
      [] s = <<"s", "s", "h">>                     -> [ok |-> TRUE, scheme |-> "Ssh"]
      [] s = <<"u", "n", "s", "p", "e", "c", "i", "f", "i", "e", "d">>
                                                   -> [ok |-> TRUE, scheme |-> "Unspecified"]
      [] OTHER -> [ok |-> FALSE, kind |-> "UnsupportedScheme", arg |-> s]

(***************************************************************************)
(* The url crate, as src/src/lib.rs uses it: Url::parse, Url::from_file_path*)
(* and the accessors scheme(), username(), password(), host_str(), port()   *)
(* and path().  The parser is modelled on the characters ASCII letters,     *)
(* digits and . + - _ / : @ (no whitespace, no control characters, no       *)
(* backslash, ? # % [ ]).  Where the parser's result depends on parts of    *)
(* the URL standard this model does not cover (dot segments, Windows drive  *)
(* letters, IPv4 and non-letter host names under the special schemes, an    *)
(* authority that starts with @, leading empty segments of a file path) the *)
(* model answers OutsideModel, and the specification draws no input on      *)
(* which normalisation meets that answer.                                   *)
(***************************************************************************)

UrlOk(u) == [ok |-> TRUE, url |-> u]
UrlErr(e) == [ok |-> FALSE, err |-> e]

MkUrl(scheme, username, password, host, port, path) ==
    [scheme |-> scheme, username |-> username, password |-> password,
     host |-> host, port |-> port, path |-> path]

\* The characters a scheme may hold after its first letter
IsSchemeChar(c) == IsAlpha(c) \/ IsDigit(c) \/ c \in {"+", "-", "."}

\* Parser::parse_scheme: the index of the ':' that ends a valid scheme, else 0
SchemeEnd(s) ==
    LET i == Find(s, ":")
    IN  IF i >= 2 /\ IsAlpha(s[1]) /\ \A j \in 2..(i - 1) : IsSchemeChar(s[j])
        THEN i ELSE 0

\* SchemeType::from: the special schemes of the URL standard
SchemeType(scheme) ==
    IF scheme = <<"f", "i", "l", "e">> THEN "File"
    ELSE IF scheme \in { <<"h", "t", "t", "p">>, <<"h", "t", "t", "p", "s">>,
                         <<"w", "s">>, <<"w", "s", "s">>, <<"f", "t", "p">> }
         THEN "SpecialNotFile"
         ELSE "NotSpecial"

\* url::parser::default_port
DefaultPort(scheme) ==
    IF scheme \in { <<"h", "t", "t", "p">>, <<"w", "s">> } THEN Some(80)
    ELSE IF scheme \in { <<"h", "t", "t", "p", "s">>, <<"w", "s", "s">> } THEN Some(443)
    ELSE IF scheme = <<"f", "t", "p">> THEN Some(21)
    ELSE None

\* the input without its leading '/' characters (Input::count_matching)
RECURSIVE SkipSlashes(_)
SkipSlashes(s) == IF Len(s) > 0 /\ s[1] = "/" THEN SkipSlashes(Tail(s)) ELSE s

\* percent-encoding with the USERINFO set, on the modelled characters
RECURSIVE EncodeUserinfo(_)
EncodeUserinfo(s) ==
    IF Len(s) = 0 THEN <<>>
    ELSE (CASE s[1] = "@" -> <<"%", "4", "0">>
            [] s[1] = ":" -> <<"%", "3", "A">>
            [] OTHER      -> <<s[1]>>) \o EncodeUserinfo(Tail(s))

\* Parser::parse_port on the text between ':' and the path; the result is
\* [ok, port] with port an Option<u16>
RECURSIVE PortValue(_, _)
PortValue(s, acc) ==
    IF Len(s) = 0 THEN acc
    ELSE IF acc * 10 + DigitVal(s[1]) > 65535 THEN 65536
    ELSE PortValue(Tail(s), acc * 10 + DigitVal(s[1]))

PortOf(digits, value, default) ==
    IF value > 65535 THEN [ok |-> FALSE, port |-> None]
    ELSE IF Len(digits) = 0 \/ Some(value) = default THEN [ok |-> TRUE, port |-> None]
    ELSE [ok |-> TRUE, port |-> Some(value)]

ParsePort(digits, scheme) ==
    IF \E i \in 1..Len(digits) : ~IsDigit(digits[i]) THEN [ok |-> FALSE, port |-> None]
    ELSE PortOf(digits, PortValue(digits, 0), DefaultPort(scheme))

\* some piece is "." or ".."
AnyDotSegment(parts) == \E i \in 1..Len(parts) : parts[i] \in { <<".">>, <<".", ".">> }

\* a path holds a "." or ".." segment, which Parser::parse_path would remove
HasDotSegment(path) == AnyDotSegment(Split(path, "/"))

NoEmptyPiece(parts) == \A i \in 1..Len(parts) : Len(parts[i]) > 0

\* a host name made of non-empty labels of letters, joined by '.'
IsPlainHost(h) ==
    /\ \A i \in 1..Len(h) : IsAlpha(h[i]) \/ h[i] = "."
    /\ NoEmptyPiece(Split(h, "."))

\* is_windows_drive_letter: a letter followed by ':' or '|'
IsWindowsDriveLetter(s) == Len(s) = 2 /\ IsAlpha(s[1]) /\ s[2] = ":"

\* Parser::parse_userinfo on the text before the last '@' of the authority:
\* the username, the password (present when something follows the first
\* ':') and whether either was written
UserinfoAt(userinfo, colon) ==
    IF colon = 0
    THEN [username |-> EncodeUserinfo(userinfo), password |-> None,
          written |-> Len(userinfo) > 0]
    ELSE [username |-> EncodeUserinfo(SubSeq(userinfo, 1, colon - 1)),
          password |-> IF colon < Len(userinfo)
                       THEN Some(EncodeUserinfo(Drop(userinfo, colon + 1))) ELSE None,
          written  |-> Len(userinfo) > 1]

Userinfo(userinfo) == UserinfoAt(userinfo, Find(userinfo, ":"))

\* the Url of an authority whose pieces have been told apart: hasColon says
\* whether a ':' follows the host, port is the outcome of ParsePort
AuthorityUrl(scheme, special, info, hoststr, hasColon, port, rest) ==
    IF special /\ Len(hoststr) = 0 THEN UrlErr("EmptyHost")
    ELSE IF special /\ ~IsPlainHost(hoststr) THEN UrlErr("OutsideModel")
    ELSE IF Len(hoststr) = 0 /\ hasColon THEN UrlErr("EmptyHost")
    ELSE IF ~port.ok THEN UrlErr("InvalidPort")
    ELSE IF Len(hoststr) = 0 /\ info.written THEN UrlErr("EmptyHost")
    ELSE IF HasDotSegment(rest) THEN UrlErr("OutsideModel")
    ELSE UrlOk(MkUrl(scheme, info.username, info.password,
                     IF Len(hoststr) = 0 THEN None
                     ELSE IF special THEN Some(ToLower(hoststr)) ELSE Some(hoststr),
                     port.port,
                     IF special /\ Len(rest) = 0 THEN <<"/">> ELSE rest))

\* Parser::parse_host_and_port: the host ends at the first ':'
HostPortAt(scheme, info, hostport, colon, rest) ==
    IF colon = 0
    THEN AuthorityUrl(scheme, SchemeType(scheme) = "SpecialNotFile", info, hostport,
                      FALSE, ParsePort(<<>>, scheme), rest)
    ELSE AuthorityUrl(scheme, SchemeType(scheme) = "SpecialNotFile", info,
                      SubSeq(hostport, 1, colon - 1), TRUE,
                      ParsePort(Drop(hostport, colon + 1), scheme), rest)

\* the userinfo ends at the last '@' of the authority
AuthorityAt(scheme, authority, at, rest) ==
    IF at = 1 THEN UrlErr("OutsideModel")
    ELSE IF at = 0
    THEN HostPortAt(scheme, Userinfo(<<>>), authority, Find(authority, ":"), rest)
    ELSE HostPortAt(scheme, Userinfo(SubSeq(authority, 1, at - 1)),
                    Drop(authority, at + 1), Find(Drop(authority, at + 1), ":"), rest)

\* the authority ends at the first '/'
AfterDoubleSlashAt(scheme, input, slash) ==
    IF slash = 0 THEN AuthorityAt(scheme, input, FindLast(input, "@"), <<>>)
    ELSE AuthorityAt(scheme, SubSeq(input, 1, slash - 1),
                     FindLast(SubSeq(input, 1, slash - 1), "@"), Drop(input, slash))

\* Parser::after_double_slash: userinfo, host, port and path of the input
\* that follows the slashes of an authority (schemes other than file)
AfterDoubleSlash(scheme, input) == AfterDoubleSlashAt(scheme, input, Find(input, "/"))

\* the file Url of a host text and a path
FileUrl(hoststr, path) ==
    IF IsWindowsDriveLetter(hoststr) THEN UrlErr("OutsideModel")
    ELSE IF HasChar(hoststr, ":") \/ HasChar(hoststr, "@")
         THEN UrlErr("InvalidDomainCharacter")
    ELSE IF Len(hoststr) > 0 /\ ~IsPlainHost(hoststr) THEN UrlErr("OutsideModel")
    ELSE IF StartsWith(path, <<"/", "/">>)
            \/ IsWindowsDriveLetter(Split(Drop(path, 2), "/")[1])
            \/ HasDotSegment(path)
         THEN UrlErr("OutsideModel")
    ELSE UrlOk(MkUrl(<<"f", "i", "l", "e">>, <<>>, None,
                     IF Len(hoststr) = 0
                        \/ ToLower(hoststr) = <<"l", "o", "c", "a", "l", "h", "o", "s", "t">>
                     THEN None ELSE Some(ToLower(hoststr)),
                     None, path))

\* the file host ends at the first '/'
FileHostAt(after, slash) ==
    IF slash = 0 THEN FileUrl(after, <<"/">>)
    ELSE FileUrl(SubSeq(after, 1, slash - 1), Drop(after, slash))

\* Parser::parse_file: the input that follows "file:"
ParseFile(input) ==
    IF StartsWith(input, <<"/", "/">>) THEN FileHostAt(Drop(input, 3), Find(Drop(input, 3), "/"))
    ELSE IF StartsWith(input, <<"/">>) THEN FileUrl(<<>>, input)
    ELSE FileUrl(<<>>, <<"/">> \o input)

\* Parser::parse_with_scheme: the input that follows "scheme:"
ParseWithScheme(scheme, type, rem) ==
    IF type = "File" THEN ParseFile(rem)
    ELSE IF type = "SpecialNotFile" THEN AfterDoubleSlash(scheme, SkipSlashes(rem))
    ELSE IF StartsWith(rem, <<"/", "/">>) THEN AfterDoubleSlash(scheme, Drop(rem, 3))
    ELSE IF StartsWith(rem, <<"/">>) /\ HasDotSegment(rem) THEN UrlErr("OutsideModel")
    ELSE UrlOk(MkUrl(scheme, <<>>, None, None, None, rem))

UrlParseAt(input, e, scheme) ==
    IF e = 0 THEN UrlErr("RelativeUrlWithoutBase")
    ELSE ParseWithScheme(scheme, SchemeType(scheme), Drop(input, e + 1))

\* Url::parse
UrlParse(input) ==
    UrlParseAt(input, SchemeEnd(input), ToLower(SubSeq(input, 1, SchemeEnd(input) - 1)))

\* the components of an absolute Unix path (Path::components without the
\* root): empty pieces and "." pieces are dropped
RECURSIVE Components(_)
Components(parts) ==
    IF Len(parts) = 0 THEN <<>>
    ELSE IF parts[1] \in { <<>>, <<".">> } THEN Components(Tail(parts))
    ELSE <<parts[1]>> \o Components(Tail(parts))

\* Url::from_file_path on a Unix target: only an absolute path converts
UrlFromFilePath(filepath) ==
    IF ~StartsWith(filepath, <<"/">>) THEN UrlErr("NotAbsolute")
    ELSE UrlOk(MkUrl(<<"f", "i", "l", "e">>, <<>>, None, None, None,
                     <<"/">> \o Join(Components(Split(filepath, "/")), <<"/">>)))

(***************************************************************************)
(* src/src/lib.rs: normalisation.  A result is [ok |-> TRUE, url |-> u] or  *)
(* [ok |-> FALSE, kind |-> k, cause |-> c] with k a NormalizeUrlErrorKind.  *)
(***************************************************************************)

NormOk(u) == [ok |-> TRUE, url |-> u]
NormErr(k, c) == [ok |-> FALSE, kind |-> k, cause |-> c]

S_ssh == <<"s", "s", "h">>
S_sep == <<":", "/", "/">>
S_git_colon == <<"g", "i", "t", ":">>
S_dot_git == <<".", "g", "i", "t">>

\* string_contains_asperand_before_colon
string_contains_asperand_before_colon(str) ==
    LET index_of_asperand == Find(str, "@")
        index_of_colon    == Find(str, ":")
    IN  index_of_asperand # 0 /\ index_of_colon # 0 /\ index_of_asperand < index_of_colon

\* a null check that looks at the first byte only
contains_null_first_only(url) == Len(url) > 0 /\ url[1] = NUL

\* url.contains('\0')
contains_null(url) == HasChar(url, NUL)

RECURSIVE normalize_url(_)

\* a rewriting of the shorthand that leaves out the "ssh://" prefix
SshRewrittenWithoutScheme(u) ==
    IF Len(u) = 2 THEN u[1] \o <<"/">> \o u[2]
    ELSE u[1] \o <<":">> \o u[2] \o <<"/">> \o u[3]

\* the text normalize_ssh_url passes on: format!("ssh://{}/{}", u[0], u[1])
\* for two parts, format!("ssh://{}:{}/{}", u[0], u[1], u[2]) for three
SshRewritten(u) ==
    IF Len(u) = 2 THEN S_ssh \o S_sep \o u[1] \o <<"/">> \o u[2]
    ELSE S_ssh \o S_sep \o u[1] \o <<":">> \o u[2] \o <<"/">> \o u[3]

\* the text normalize_file_path passes on: format!("file://{}", filepath)
FileRewritten(filepath) == <<"f", "i", "l", "e">> \o S_sep \o filepath

\* normalize_ssh_url
SshRewrite(url, u) ==
    IF Len(u) \in {2, 3} THEN normalize_url(SshRewritten(u))
    ELSE NormErr("UnsupportedSshPattern", url)

normalize_ssh_url(url) == SshRewrite(url, Split(url, ":"))

\* normalize_file_path (the unix build)
FilePathMatch(filepath, fp) ==
    IF fp.ok THEN NormOk(fp.url)
    ELSE normalize_url(FileRewritten(filepath))

normalize_file_path(filepath) == FilePathMatch(filepath, UrlFromFilePath(filepath))

\* the match on the outcome of Url::parse in normalize_url
MatchUrlParse(url, url_parse) ==
    IF url_parse.ok
    THEN IF SchemeFromStr(url_parse.url.scheme).ok
         THEN NormOk(url_parse.url)
         ELSE normalize_ssh_url(url)
    ELSE IF url_parse.err = "RelativeUrlWithoutBase"
         THEN IF string_contains_asperand_before_colon(url)
              THEN normalize_ssh_url(url)
              ELSE normalize_file_path(url)
    ELSE NormErr("UrlParse", <<url_parse.err>>)

\* normalize_url, from the trimmed text on
NormalizeTrimmed(url) ==
    IF StartsWith(url, S_git_colon) /\ ~(Len(url) >= 5 /\ url[5] = "/")
    THEN MatchUrlParse(url, UrlParse(Replace(url, S_git_colon, S_git_colon \o <<"/", "/">>)))
    ELSE MatchUrlParse(url, UrlParse(url))

\* normalize_url
normalize_url(raw) ==
    IF contains_null(raw) THEN NormErr("NullBytes", <<>>)
    ELSE NormalizeTrimmed(TrimEndMatches(raw, <<"/">>))

(***************************************************************************)
(* The same three functions, one call at a time.  A step is what one       *)
(* function does until it returns or calls the next one: fn is "return"    *)
(* with the result in value, or the name of the function called with its   *)
(* argument in arg.  Every call is in tail position (the ? operator and    *)
(* Ok(..) hand the callee's result on unchanged).                          *)
(***************************************************************************)

NormReturn(v) == [fn |-> "return", arg |-> <<>>, value |-> Some(v)]
NormCall(f, a) == [fn |-> f, arg |-> a, value |-> None]

\* normalize_ssh_url until its return or its call of normalize_url
SshStep(url, u) ==
    IF Len(u) \in {2, 3} THEN NormCall("normalize_url", SshRewritten(u))
    ELSE NormReturn(NormErr("UnsupportedSshPattern", url))

NormalizeSshUrlStep(url) == SshStep(url, Split(url, ":"))

\* normalize_file_path until its return or its call of normalize_url
FilePathStep(filepath, fp) ==
    IF fp.ok THEN NormReturn(NormOk(fp.url))
    ELSE NormCall("normalize_url", FileRewritten(filepath))

NormalizeFilePathStep(filepath) == FilePathStep(filepath, UrlFromFilePath(filepath))

\* the match on the outcome of Url::parse in normalize_url
MatchUrlParseStep(url, url_parse) ==
    IF url_parse.ok
    THEN IF SchemeFromStr(url_parse.url.scheme).ok
         THEN NormReturn(NormOk(url_parse.url))
         ELSE NormCall("normalize_ssh_url", url)
    ELSE IF url_parse.err = "RelativeUrlWithoutBase"
         THEN IF string_contains_asperand_before_colon(url)
              THEN NormCall("normalize_ssh_url", url)
              ELSE NormCall("normalize_file_path", url)
    ELSE NormReturn(NormErr("UrlParse", <<url_parse.err>>))

NormalizeTrimmedStep(url) ==
    IF StartsWith(url, S_git_colon) /\ ~(Len(url) >= 5 /\ url[5] = "/")
    THEN MatchUrlParseStep(url, UrlParse(Replace(url, S_git_colon, S_git_colon \o <<"/", "/">>)))
    ELSE MatchUrlParseStep(url, UrlParse(url))

\* normalize_url until its return or its call of one of the other two
NormalizeUrlStep(raw) ==
    IF contains_null(raw) THEN NormReturn(NormErr("NullBytes", <<>>))
    ELSE NormalizeTrimmedStep(TrimEndMatches(raw, <<"/">>))

(***************************************************************************)
(* src/src/lib.rs: GitUrl, GitUrl::parse, GitUrl::trim_auth and Display.    *)
(* The outcome of a call of parse is                                        *)
(*   [status |-> "Ok", g |-> the GitUrl],                                   *)
(*   [status |-> "Err", kind |-> a FromStrErrorKind, cause |-> the wrapped  *)
(*    NormalizeUrlErrorKind or <<>>],                                       *)
(*   [status |-> "Panic", at |-> the indexing that aborts], or              *)
(*   [status |-> "OutsideModel"] when Url::parse left the modelled part.    *)
(***************************************************************************)

ParseOk(g) == [status |-> "Ok", g |-> g]
ParseErr(k, c) == [status |-> "Err", kind |-> k, cause |-> c]
ParsePanic(at) == [status |-> "Panic", at |-> at]

hosts_w_organization_in_path ==
    { <<"d", "e", "v", ".", "a", "z", "u", "r", "e", ".", "c", "o", "m">>,
      <<"s", "s", "h", ".", "d", "e", "v", ".", "a", "z", "u", "r", "e", ".", "c", "o", "m">> }

\* the match with the two arms of the allow-list test exchanged
OwnerOrgFullnameArmsSwapped(url, scheme, host_str, splitpath, name) ==
    IF host_str \notin hosts_w_organization_in_path
    THEN IF scheme = "Ssh"
         THEN IF Len(splitpath) < 3 THEN [status |-> "Panic", at |-> "splitpath[2]"]
              ELSE [status |-> "Ok",
                    owner |-> Some(splitpath[2]), organization |-> Some(splitpath[3]),
                    fullname |-> Join(<<splitpath[3], splitpath[2], splitpath[1]>>, <<"/">>)]
         ELSE IF scheme = "Https"
         THEN IF Len(splitpath) < 4 THEN [status |-> "Panic", at |-> "splitpath[3]"]
              ELSE [status |-> "Ok",
                    owner |-> Some(splitpath[3]), organization |-> Some(splitpath[4]),
                    fullname |-> Join(<<splitpath[4], splitpath[3], splitpath[1]>>, <<"/">>)]
         ELSE [status |-> "Err", kind |-> "UnsupportedScheme"]
    ELSE IF ~StartsWith(url, S_ssh) /\ Len(splitpath) < 2
         THEN [status |-> "Err", kind |-> "MalformedGitUrl"]
         ELSE IF Len(splitpath) = 0 THEN [status |-> "Err", kind |-> "MalformedGitUrl"]
         ELSE LET position == IF Len(splitpath) = 1 THEN 1 ELSE 2
              IN  [status |-> "Ok",
                   owner |-> Some(splitpath[position]), organization |-> None,
                   fullname |-> Join(<<splitpath[position], name>>, <<"/">>)]

\* the (owner, organization, fullname) match of GitUrl::parse for a scheme
\* other than File, given the host; a record with the outcome in status
OwnerOrgFullname(url, scheme, host_str, splitpath, name) ==
    IF host_str \in hosts_w_organization_in_path
    THEN IF scheme = "Ssh"
         THEN IF Len(splitpath) < 3 THEN [status |-> "Panic", at |-> "splitpath[2]"]
              ELSE [status |-> "Ok",
                    owner |-> Some(splitpath[2]), organization |-> Some(splitpath[3]),
                    fullname |-> Join(<<splitpath[3], splitpath[2], splitpath[1]>>, <<"/">>)]
         ELSE IF scheme = "Https"
         THEN IF Len(splitpath) < 4 THEN [status |-> "Panic", at |-> "splitpath[3]"]
              ELSE [status |-> "Ok",
                    owner |-> Some(splitpath[3]), organization |-> Some(splitpath[4]),
                    fullname |-> Join(<<splitpath[4], splitpath[3], splitpath[1]>>, <<"/">>)]
         ELSE [status |-> "Err", kind |-> "UnsupportedScheme"]
    ELSE IF ~StartsWith(url, S_ssh) /\ Len(splitpath) < 2
         THEN [status |-> "Err", kind |-> "MalformedGitUrl"]
         ELSE IF Len(splitpath) = 0 THEN [status |-> "Err", kind |-> "MalformedGitUrl"]
         ELSE LET position == IF Len(splitpath) = 1 THEN 1 ELSE 2
              IN  [status |-> "Ok",
                   owner |-> Some(splitpath[position]), organization |-> None,
                   fullname |-> Join(<<splitpath[position], name>>, <<"/">>)]

\* the GitUrl that GitUrl::parse builds (lines 318-350)
BuildGitUrl(url, normalized, scheme, urlpath, name, meta) ==
    ParseOk([host          |-> IF scheme = "File" THEN None ELSE normalized.host,
             name          |-> name,
             owner         |-> meta.owner,
             organization  |-> meta.organization,
             fullname      |-> meta.fullname,
             scheme        |-> scheme,
             user          |-> IF Len(normalized.username) = 0 THEN None
                               ELSE Some(normalized.username),
             token         |-> normalized.password,
             port          |-> normalized.port,
             path          |-> IF scheme = "File" /\ IsSome(normalized.host)
                               THEN Unwrap(normalized.host) \o urlpath
                               ELSE urlpath,
             git_suffix    |-> EndsWith(urlpath, S_dot_git),
             scheme_prefix |-> Contains(url, S_sep) \/ StartsWith(url, S_git_colon)])

\* the outcome of the (owner, organization, fullname) match
MatchMeta(url, normalized, scheme, urlpath, name, meta) ==
    IF meta.status = "Panic" THEN ParsePanic(meta.at)
    ELSE IF meta.status = "Err" THEN ParseErr(meta.kind, <<>>)
    ELSE BuildGitUrl(url, normalized, scheme, urlpath, name, meta)

\* GitUrl::parse from name on (lines 224-316)
ParseNamed(url, normalized, scheme, urlpath, splitpath, name) ==
    IF scheme = "File"
    THEN BuildGitUrl(url, normalized, scheme, urlpath, name,
                     [status |-> "Ok", owner |-> None, organization |-> None,
                      fullname |-> name])
    ELSE IF ~IsSome(normalized.host) THEN ParseErr("UrlHost", <<>>)
    ELSE MatchMeta(url, normalized, scheme, urlpath, name,
                   OwnerOrgFullname(url, scheme, Unwrap(normalized.host), splitpath, name))

\* GitUrl::parse from splitpath on (lines 219-222): splitpath[0] aborts on
\* an empty vector
ParseSplit(url, normalized, scheme, urlpath, splitpath) ==
    IF Len(splitpath) = 0 THEN ParsePanic("splitpath[0]")
    ELSE ParseNamed(url, normalized, scheme, urlpath, splitpath,
                    TrimEndMatches(splitpath[1], S_dot_git))

\* GitUrl::parse from urlpath on (lines 197-204): path()[1..] aborts on an
\* empty path
ParseScheme(url, normalized, scheme) ==
    IF scheme = "Ssh"
    THEN IF Len(normalized.path) < 1 THEN ParsePanic("path()[1..]")
         ELSE ParseSplit(url, normalized, scheme, Drop(normalized.path, 2),
                         RSplitTerminator(Drop(normalized.path, 2), "/"))
    ELSE ParseSplit(url, normalized, scheme, normalized.path,
                    RSplitTerminator(normalized.path, "/"))

\* GitUrl::parse, from the normalised Url on (lines 191-194)
ParseFromStr(url, normalized, from_str) ==
    IF ~from_str.ok THEN ParseErr("UnsupportedScheme", <<>>)
    ELSE ParseScheme(url, normalized, from_str.scheme)

ParseNormalized(url, normalized) ==
    ParseFromStr(url, normalized, SchemeFromStr(normalized.scheme))

\* the match on the outcome of normalize_url (lines 184-187)
MatchNormalized(url, n) ==
    IF n.ok THEN ParseNormalized(url, n.url)
    ELSE IF n.kind = "UrlParse" /\ n.cause = <<"OutsideModel">>
         THEN [status |-> "OutsideModel"]
    ELSE ParseErr("NormalizeUrl", <<n.kind>>)

\* GitUrl::parse
GitUrlParse(url) == MatchNormalized(url, normalize_url(url))

\* a trim_auth that clears the user and forgets the token
trim_auth_keeps_token(self) == [self EXCEPT !.user = None]

\* GitUrl::trim_auth
trim_auth(self) == [self EXCEPT !.user = None, !.token = None]

\* impl fmt::Display for GitUrl
GitUrlDisplay(self) ==
    LET scheme_prefix == IF self.scheme_prefix THEN SchemeDisplay(self.scheme) \o S_sep
                         ELSE <<>>
        auth_info ==
            IF self.scheme \in {"Ssh", "Git", "GitSsh"}
            THEN IF IsSome(self.user) THEN Unwrap(self.user) \o <<"@">> ELSE <<>>
            ELSE IF self.scheme \in {"Http", "Https"}
            THEN IF IsSome(self.user) /\ IsSome(self.token)
                 THEN Unwrap(self.user) \o <<":">> \o Unwrap(self.token) \o <<"@">>
                 ELSE IF IsSome(self.user) THEN Unwrap(self.user) \o <<"@">>
                 ELSE IF IsSome(self.token) THEN Unwrap(self.token) \o <<"@">>
                 ELSE <<>>
            ELSE <<>>
        host == IF IsSome(self.host) THEN Unwrap(self.host) ELSE <<>>
        port == IF IsSome(self.port) THEN <<":">> \o FmtNum(Unwrap(self.port)) ELSE <<>>
        path == IF self.scheme = "Ssh"
                THEN IF IsSome(self.port) THEN <<"/">> \o self.path
                     ELSE <<":">> \o self.path
                ELSE self.path
    IN  scheme_prefix \o auth_info \o host \o port \o path

(***************************************************************************)
(* The inputs.  A raw URL is a head (scheme marker, userinfo, host, port    *)
(* and separator, in the shapes the code tells apart) followed by at most   *)
(* MaxSegs path segments joined by '/'; a null byte is put at every position*)
(* of the inputs of at most one segment.                                    *)
(***************************************************************************)

MaxSegs == 3

Heads ==
    { <<"g", "i", "t", "@", "h", ".", "i", "o", ":">>,
      <<"h", ".", "i", "o", ":">>,
      <<"g", "i", "t", "@", "h", ".", "i", "o", ":", "2", "2", ":">>,
      <<"g", "i", "t", "@", "s", "s", "h", ".", "d", "e", "v", ".", "a", "z", "u", "r", "e", ".", "c", "o", "m", ":">>,
      <<"s", "s", "h", ":", "/", "/", "g", "i", "t", "@", "h", ".", "i", "o", "/">>,
      <<"s", "s", "h", ":", "/", "/", "h", ".", "i", "o", ":", "2", "2", "/">>,
      <<"s", "s", "h", ":", "/", "/", "g", "i", "t", "@", "s", "s", "h", ".", "d", "e", "v", ".", "a", "z", "u", "r", "e", ".", "c", "o", "m", "/">>,
      <<"s", "s", "h", ":">>,
      <<"H", "T", "T", "P", "S", ":", "/", "/", "H", ".", "i", "o", "/">>,
      <<"h", "t", "t", "p", "s", ":", "/", "/", "h", ".", "i", "o", "/">>,
      <<"h", "t", "t", "p", "s", ":", "/", "/", "u", ":", "t", "@", "h", ".", "i", "o", "/">>,
      <<"h", "t", "t", "p", "s", ":", "/", "/", "t", "@", "d", "e", "v", ".", "a", "z", "u", "r", "e", ".", "c", "o", "m", "/", "c", "/">>,
      <<"h", "t", "t", "p", ":", "/", "/", "u", "@", "h", ".", "i", "o", ":", "8", "0", "/">>,
      <<"g", "i", "t", ":", "h", ".", "i", "o", "/">>,
      <<"g", "i", "t", ":", "/", "/", "h", ".", "i", "o", "/">>,
      <<"g", "i", "t", ":", "/", "/", "d", "e", "v", ".", "a", "z", "u", "r", "e", ".", "c", "o", "m", "/">>,
      <<"g", "i", "t", "+", "s", "s", "h", ":", "/", "/", "g", "i", "t", "@", "h", ".", "i", "o", "/">>,
      <<"f", "t", "p", ":", "/", "/", "h", ".", "i", "o", ":", "2", "2", "/">>,
      <<"f", "i", "l", "e", ":", "/", "/", "/">>,
      <<"f", "i", "l", "e", ":", "/", "/", "h", ".", "i", "o", "/">>,
      <<"/">>,
      <<>>,
      <<"s", "f", "t", "p", ":", "/", "/", "h", ".", "i", "o", "/">>,
      <<"s", "f", "t", "p", ":", "/", "/", "h", ".", "i", "o", ":", "2", "2", "/">> }

Segs == { <<"o">>,
          <<"r", ".", "g", "i", "t">>,
          <<".", "g", "i", "t">>,
          <<>> }

RECURSIVE SegLists(_)
SegLists(n) == IF n = 0 THEN { <<>> }
               ELSE SegLists(n - 1) \cup
                    { Append(l, s) : l \in { m \in SegLists(n - 1) : Len(m) = n - 1 }, s \in Segs }

PlainInputs == { h \o Join(l, <<"/">>) : h \in Heads, l \in SegLists(MaxSegs) }

InsertAt(s, i, c) == SubSeq(s, 1, i) \o <<c>> \o Drop(s, i + 1)

NulBases == { h \o Join(l, <<"/">>) : h \in Heads, l \in SegLists(1) }

NulInputs == UNION { { InsertAt(b, i, NUL) : i \in 0..Len(b) } : b \in NulBases }

\* the inputs on which every Url::parse of the normalisation is modelled
Inputs == { u \in PlainInputs \cup NulInputs : GitUrlParse(u).status # "OutsideModel" }

\* the strings handed to Scheme::from_str: the canonical tokens, their
\* prefixes, their capitalised forms and the tokens with one more character
CanonicalTokens == { SchemeDisplay(s) : s \in Scheme }

Tokens ==
    UNION { { SubSeq(c, 1, n) : n \in 0..Len(c) } : c \in CanonicalTokens }
    \cup { [i \in 1..Len(c) |-> IF i = 1 THEN "X" ELSE c[i]] : c \in CanonicalTokens }
    \cup { c \o <<x>> : c \in CanonicalTokens, x \in {"s", ":", "+"} }

(***************************************************************************)
(* The state machine.  One call sequence on one input: normalize_url alone, *)
(* or GitUrl::parse, then trim_auth on its result, Display of the trimmed   *)
(* value, and GitUrl::parse of the rendered text.  The Scheme codec is      *)
(* exercised on its own: Display of a variant, from_str of a text.          *)
(***************************************************************************)

VARIABLES url, pc, norm, res, trimmed, rendered, res2, sVar, sText, sRes,
          nInput, nFn, nArg, nRet, nDepth

vars == <<url, pc, norm, res, trimmed, rendered, res2, sVar, sText, sRes,
          nInput, nFn, nArg, nRet, nDepth>>

urlVars == <<url, pc, norm, res, trimmed, rendered, res2>>
schemeVars == <<sVar, sText, sRes>>
normVars == <<nInput, nFn, nArg, nRet, nDepth>>

InitUrl ==
    /\ url \in Inputs
    /\ pc = "start"
    /\ norm = None /\ res = None /\ trimmed = None /\ rendered = None /\ res2 = None

InitScheme ==
    /\ \/ sVar \in { Some(s) : s \in Scheme } /\ sText = None
       \/ sVar = None /\ sText \in { Some(x) : x \in Tokens }
    /\ sRes = None

\* normalize_url(url), called on its own
Normalize ==
    /\ pc = "start"
    /\ norm' = Some(normalize_url(url))
    /\ pc' = "normalized"
    /\ UNCHANGED <<url, res, trimmed, rendered, res2, schemeVars, normVars>>

\* GitUrl::parse(url)
Parse ==
    /\ pc = "start"
    /\ res' = Some(GitUrlParse(url))
    /\ pc' = "parsed"
    /\ UNCHANGED <<url, norm, trimmed, rendered, res2, schemeVars, normVars>>

\* g.trim_auth() on the parsed value
TrimAuth ==
    /\ pc = "parsed"
    /\ Unwrap(res).status = "Ok"
    /\ trimmed' = Some(trim_auth(Unwrap(res).g))
    /\ pc' = "trimmed"
    /\ UNCHANGED <<url, norm, res, rendered, res2, schemeVars, normVars>>

\* format!("{}", trimmed)
Render ==
    /\ pc = "trimmed"
    /\ rendered' = Some(GitUrlDisplay(Unwrap(trimmed)))
    /\ pc' = "rendered"
    /\ UNCHANGED <<url, norm, res, trimmed, res2, schemeVars, normVars>>

\* GitUrl::parse(rendered)
Reparse ==
    /\ pc = "rendered"
    /\ res2' = Some(GitUrlParse(Unwrap(rendered)))
    /\ pc' = "reparsed"
    /\ UNCHANGED <<url, norm, res, trimmed, rendered, schemeVars, normVars>>

\* format!("{}", scheme)
Encode ==
    /\ IsSome(sVar) /\ ~IsSome(sText)
    /\ sText' = Some(SchemeDisplay(Unwrap(sVar)))
    /\ UNCHANGED <<urlVars, normVars, sVar, sRes>>

\* Scheme::from_str(text)
Decode ==
    /\ IsSome(sText) /\ ~IsSome(sRes)
    /\ sRes' = Some(SchemeFromStr(Unwrap(sText)))
    /\ UNCHANGED <<urlVars, normVars, sVar, sText>>

IdleUrl ==
    /\ url = <<>> /\ pc = "idle"
    /\ norm = None /\ res = None /\ trimmed = None /\ rendered = None /\ res2 = None

IdleScheme == sVar = None /\ sText = None /\ sRes = None

IdleNorm == nInput = <<>> /\ nFn = "idle" /\ nArg = <<>> /\ nRet = None /\ nDepth = 0

Init == InitUrl /\ IdleScheme /\ IdleNorm

Next == Normalize \/ Parse \/ TrimAuth \/ Render \/ Reparse

Spec == Init /\ [][Next]_vars

SchemeInit == IdleUrl /\ InitScheme /\ IdleNorm

SchemeNext == Encode \/ Decode

SchemeSpec == SchemeInit /\ [][SchemeNext]_vars

\* the most frames the call stack may hold
MaxDepth == 8

\* shorthands whose rewriting does not parse: "git@h.io:x:o" (a port that
\* is no number), "h.io:x:o", "git@:o" (no host) and "git@h.io:o:o:o" (too
\* many parts)
BadShorthands ==
    { <<"g", "i", "t", "@", "h", ".", "i", "o", ":", "x", ":", "o">>,
      <<"h", ".", "i", "o", ":", "x", ":", "o">>,
      <<"g", "i", "t", "@", ":", "o">>,
      <<"g", "i", "t", "@", "h", ".", "i", "o", ":", "o", ":", "o", ":", "o">> }

\* the texts normalize_url is called with
NormInputs ==
    Inputs \cup { u \in BadShorthands : GitUrlParse(u).status # "OutsideModel" }

\* a caller has just entered normalize_url(nInput)
NormInit ==
    /\ IdleUrl /\ IdleScheme
    /\ nInput \in NormInputs
    /\ nFn = "normalize_url" /\ nArg = nInput /\ nRet = None /\ nDepth = 1

\* the running function returns, or calls the next one with one more
\* frame; a call that finds the stack full ends the run in "overflow"
Advance(step) ==
    /\ nFn' = IF step.fn # "return" /\ nDepth = MaxDepth THEN "overflow" ELSE step.fn
    /\ nArg' = step.arg
    /\ nRet' = step.value
    /\ nDepth' = IF step.fn = "return" \/ nDepth = MaxDepth THEN nDepth ELSE nDepth + 1
    /\ UNCHANGED <<nInput, urlVars, schemeVars>>

RunNormalizeUrl == nFn = "normalize_url" /\ Advance(NormalizeUrlStep(nArg))

RunNormalizeSshUrl == nFn = "normalize_ssh_url" /\ Advance(NormalizeSshUrlStep(nArg))

RunNormalizeFilePath == nFn = "normalize_file_path" /\ Advance(NormalizeFilePathStep(nArg))

NormNext == RunNormalizeUrl \/ RunNormalizeSshUrl \/ RunNormalizeFilePath

NormFns == {"normalize_url", "normalize_ssh_url", "normalize_file_path"}

\* what a step of NormNext does to the control state: one of the three
\* functions is running, and it returns, calls or overflows.  NormProgress
\* is enabled exactly when NormNext is (a function is running), and every
\* step of NormNext changes <<nFn, nDepth>> as NormProgress says.
NormProgress ==
    /\ nFn \in NormFns
    /\ nFn' \in NormFns \cup {"return", "overflow"}
    /\ nDepth' \in {nDepth, nDepth + 1}

\* a function that has been called runs on: the program is sequential.
\* Given [][NormNext]_vars this is WF_vars(NormNext), stated on the control
\* state so that enabledness does not depend on the text being parsed.
NormSpec == NormInit /\ [][NormNext]_vars /\ WF_<<nFn, nDepth>>(NormProgress)

(***************************************************************************)
(* The properties.                                                          *)
(***************************************************************************)

\* the outcome of the first parse, once it has been made
Parsed == IsSome(res)
R == Unwrap(res)
ParsedOk == Parsed /\ R.status = "Ok"

IdentityTuple(g) == <<g.scheme, g.host, g.owner, g.organization, g.name>>

\* C1: whenever parse succeeds with g, parsing the Display rendering of
\* g.trim_auth() succeeds and yields the same (scheme, host, owner,
\* organization, name) tuple as g.
C1_IdempotentReparse ==
    pc = "reparsed" /\ Unwrap(res2).status # "OutsideModel" =>
        /\ Unwrap(res2).status = "Ok"
        /\ IdentityTuple(Unwrap(res2).g) = IdentityTuple(R.g)

\* the fields of a GitUrl other than user and token
FrameOf(g) == <<g.host, g.name, g.owner, g.organization, g.fullname, g.scheme,
                g.port, g.path, g.git_suffix, g.scheme_prefix>>

C2_TrimmedValue ==
    IsSome(trimmed) =>
        /\ Unwrap(trimmed).user = None
        /\ Unwrap(trimmed).token = None
        /\ FrameOf(Unwrap(trimmed)) = FrameOf(R.g)

\* C2: g.trim_auth() returns a value whose user and token are absent and
\* whose ten other fields equal those of g, and the call leaves g as it was.
C2_TrimAuth == [](C2_TrimmedValue) /\ [][TrimAuth => res' = res]_vars

\* trim_auth has been called on a value that carries a user and a token
C2_Witness ==
    pc = "trimmed" /\ IsSome(R.g.user) /\ IsSome(R.g.token) /\ IsSome(R.g.port) = FALSE
    /\ Unwrap(trimmed).user = None

\* C3: on an input that holds a null byte anywhere, normalize_url fails with
\* NullBytes and parse fails with NormalizeUrl wrapping NullBytes, whatever
\* the rest of the input is.
C3_NullBytes ==
    HasChar(url, NUL) =>
        /\ IsSome(norm) => ~Unwrap(norm).ok /\ Unwrap(norm).kind = "NullBytes"
        /\ Parsed => /\ R.status = "Err"
                      /\ R.kind = "NormalizeUrl"
                      /\ R.cause = <<"NullBytes">>

\* parse has failed on an input whose null byte is neither first nor last
C3_Witness ==
    /\ pc = "parsed" /\ HasChar(url, NUL)
    /\ Find(url, NUL) > 1 /\ Find(url, NUL) < Len(url)
    /\ R.status = "Err" /\ R.cause = <<"NullBytes">>

\* the input starts with token "://" and the token, lowercased, is none of
\* the nine canonical tokens
ExplicitUnsupportedScheme(u) ==
    LET e == SchemeEnd(u)
    IN  /\ ~HasChar(u, NUL)
        /\ e # 0
        /\ StartsWith(Drop(u, e), S_sep)
        /\ ~SchemeFromStr(ToLower(SubSeq(u, 1, e - 1))).ok

\* C4: an input with an explicit scheme marker whose scheme token is not one
\* of the nine canonical tokens makes parse fail with UnsupportedScheme: a
\* call that returns (the aborts are the matter of C10) returns that error,
\* never a result.
C4_UnsupportedSchemeRejected ==
    Parsed /\ R.status # "Panic" /\ ExplicitUnsupportedScheme(url) =>
        /\ R.status = "Err"
        /\ \/ R.kind = "UnsupportedScheme"
           \/ R.kind = "NormalizeUrl" /\ R.cause = <<"UnsupportedScheme">>

\* C5: from_str of the Display output of each of the nine variants returns
\* that variant, the nine tokens are pairwise distinct, and from_str fails
\* with UnsupportedScheme on every text that is not one of the nine tokens.
C5_SchemeCodec ==
    /\ Cardinality(CanonicalTokens) = Cardinality(Scheme)
    /\ IsSome(sVar) /\ IsSome(sRes) =>
           Unwrap(sRes).ok /\ Unwrap(sRes).scheme = Unwrap(sVar)
    /\ IsSome(sRes) /\ Unwrap(sText) \notin CanonicalTokens =>
           ~Unwrap(sRes).ok /\ Unwrap(sRes).kind = "UnsupportedScheme"
    /\ IsSome(sRes) /\ Unwrap(sText) \in CanonicalTokens =>
           Unwrap(sRes).ok /\ SchemeDisplay(Unwrap(sRes).scheme) = Unwrap(sText)

\* the variant GitSsh has been rendered and its token decoded
C5_Witness ==
    /\ sVar = Some("GitSsh") /\ IsSome(sText) /\ IsSome(sRes)
    /\ Unwrap(sRes).ok

\* the last of the pieces of fullname between '/' characters
LastComponent(fullname) == Split(fullname, "/")[Len(Split(fullname, "/"))]

\* C6: in every successful result the final '/'-joined component of fullname
\* equals name.
C6_FullnameEndsWithName == ParsedOk => LastComponent(R.g.fullname) = R.g.name

\* C7: in every successful result name is non-empty.
C7_NameNonEmpty == ParsedOk => Len(R.g.name) > 0

OrganizationRule(g) ==
    /\ IsSome(g.organization) =>
           /\ IsSome(g.host) /\ Unwrap(g.host) \in hosts_w_organization_in_path
           /\ IsSome(g.owner)
    /\ g.scheme = "File" => g.owner = None /\ g.organization = None /\ g.host = None

\* C8: in every successful result organization is present only if the host
\* is on the allow-list and owner is present too, and under the File scheme
\* owner, organization and host are all absent.
C8_OrganizationOnlyOnAllowList ==
    /\ ParsedOk => OrganizationRule(R.g)
    /\ IsSome(res2) /\ Unwrap(res2).status = "Ok" => OrganizationRule(Unwrap(res2).g)

\* a parse has succeeded with an organization
C8_Witness == pc = "parsed" /\ ParsedOk /\ IsSome(R.g.organization) /\ IsSome(R.g.owner)

\* the segments the code indexes: the normalised path, less its first
\* character under Ssh, split from the right
SegmentsOf(n) ==
    LET scheme  == SchemeFromStr(n.scheme).scheme
        urlpath == IF scheme # "Ssh" THEN n.path
                   ELSE IF Len(n.path) = 0 THEN <<>> ELSE Drop(n.path, 2)
    IN  RSplitTerminator(urlpath, "/")

\* SSH shorthand with a single path segment, as in git@host:repo.git
SingleSegmentShorthand(u) ==
    /\ ~Contains(u, S_sep)
    /\ string_contains_asperand_before_colon(u)
    /\ Len(Split(u, ":")) = 2
    /\ Len(RSplitTerminator(Split(u, ":")[2], "/")) = 1

\* C9: for a scheme other than File and a host not on the allow-list, parse
\* fails with MalformedGitUrl exactly when there are fewer than 2 segments
\* and the raw input does not begin with the SSH indicator; otherwise it
\* succeeds with owner = segment 1 (segment 0 when there is only one) and
\* fullname = owner/name; the single-segment SSH shorthand succeeds.  The
\* calls that abort are the matter of C10 and are left out here.
C9_DefaultHostBranch ==
    LET n    == normalize_url(url)
        segs == SegmentsOf(n.url)
    IN  (/\ Parsed /\ R.status # "Panic" /\ n.ok
         /\ SchemeFromStr(n.url.scheme).scheme # "File"
         /\ IsSome(n.url.host)
         /\ Unwrap(n.url.host) \notin hosts_w_organization_in_path)
        => /\ IF Len(segs) < 2 /\ ~StartsWith(url, S_ssh)
                  /\ ~SingleSegmentShorthand(url)
              THEN R.status = "Err" /\ R.kind = "MalformedGitUrl"
              ELSE /\ R.status = "Ok"
                   /\ Len(segs) >= 1
                   /\ R.g.owner = Some(segs[IF Len(segs) >= 2 THEN 2 ELSE 1])
                   /\ R.g.fullname = Unwrap(R.g.owner) \o <<"/">> \o R.g.name

\* C10: parse returns a result or an error on every input and never aborts.
C10_ParseNeverPanics == Parsed => R.status # "Panic"

S_ssh_sep == S_ssh \o S_sep
S_file_sep == <<"f", "i", "l", "e">> \o S_sep

\* the text handed to a call of normalize_url made by one of the rewrites
\* begins with "ssh://" or "file://"
RewrittenHasScheme ==
    (nFn' = "normalize_url" /\ nFn # "normalize_url")
        => (StartsWith(nArg', S_ssh_sep) \/ StartsWith(nArg', S_file_sep))

\* a normalize_url entered from a rewrite returns without a further call
NoSecondRewrite == (nFn = "normalize_url" /\ nDepth > 1) => nFn' = "return"

\* C11: normalize_url terminates on every input: the call stack of
\* normalize_url, normalize_ssh_url and normalize_file_path never holds more
\* than three frames (normalize_url, the rewrite it calls and the
\* normalize_url that the rewrite calls), every text a rewrite passes to normalize_url begins
\* with "ssh://" or "file://", the normalize_url so entered returns without
\* entering a rewrite again, and the outermost call does return.
C11_NormalizeUrlTerminates ==
    /\ [](nDepth <= 3)
    /\ [][RewrittenHasScheme]_vars
    /\ [][NoSecondRewrite]_vars
    /\ <>(nFn = "return")

\* a shorthand was rewritten, normalize_url entered again and returned a Url
C11_Witness ==
    /\ nFn = "return" /\ nDepth = 3
    /\ Unwrap(nRet).ok /\ Unwrap(nRet).url.scheme = S_ssh
    /\ ~StartsWith(nInput, S_ssh)

\* the stepwise run returns what the recursive definition computes
StepwiseAgrees == nFn = "return" => Unwrap(nRet) = normalize_url(nInput)

====
